---------------------------- MODULE Spec2Model ----------------------------
(***************************************************************************)
(* A model of sql_dependency_graph/graph.py: the artifact identifier       *)
(* resolver (_convert_path_to_artifact), the dependency extractor          *)
(* (_get_dependencies), the graph builder (create_dependency_graph with    *)
(* _get_path_lookup and _create_dependency_graph_helper) and the subgraph  *)
(* extractor (_create_dependency_subgraph).                                *)
(*                                                                         *)
(* Strings are sequences of one-character strings, so that the regular     *)
(* expressions and the str.replace calls of the source are computed        *)
(* character by character.  A Python list is a sequence, a set is a set,   *)
(* a dict is a function whose DOMAIN is its key set.                       *)
(***************************************************************************)
EXTENDS Integers, Sequences, FiniteSets, TLC

VARIABLES
    files,               \* the directory snapshot: file path -> file text
    sql_dir,             \* create_dependency_graph / _convert_path_to_artifact argument
    relationship,        \* create_dependency_graph argument
    root_artifact,       \* root artifact argument (NoRoot: None or "")
    enumerated,          \* TRUE once Path(sql_dir).rglob has run
    enumeration,         \* line 67: the .sql paths in the order rglob yielded them
    files_read,          \* the paths opened and read so far, in order
    path_lookup,         \* _get_path_lookup's dict: artifact -> path
    artifacts,           \* list(path_lookup.keys())
    cursor,              \* position of the for loop over artifacts
    sql,                 \* the text handed to _get_dependencies
    dependencies,        \* the list _get_dependencies returned
    dependency_graph,    \* the graph being built / the subgraph extractor's input
    lookup_artifacts,    \* the frontier set of _create_dependency_subgraph
    subgraph_artifacts,  \* the list of relevant artifacts
    visited,             \* the visited set
    dependency_subgraph, \* the value _create_dependency_subgraph returned
    artifact_path,       \* _convert_path_to_artifact argument
    artifact,            \* the value _convert_path_to_artifact returned
    error,               \* the exception raised, "none" when none
    pc,                  \* the position of the running function
    pass,                \* which call of the subgraph extractor is running (1 or 2)
    first_subgraph,      \* the value the first call returned
    popped,              \* the artifacts popped from the frontier so far, in order
    run,                 \* which call of create_dependency_graph is running (1 or 2)
    first_graph          \* the value the first call of create_dependency_graph returned

vars == <<files, sql_dir, relationship, root_artifact, enumerated, files_read,
          path_lookup, artifacts, cursor, sql, dependencies, dependency_graph,
          lookup_artifacts, subgraph_artifacts, visited, dependency_subgraph,
          artifact_path, artifact, error, pc, pass, first_subgraph, popped,
          enumeration, run, first_graph>>

-----------------------------------------------------------------------------
(* Generic helpers on sequences, sets and dicts.                           *)

Range(s) == {s[i] : i \in 1..Len(s)}

NoDuplicates(s) == \A i, j \in 1..Len(s) : i # j => s[i] # s[j]

\* All the sequences of length at most n over S.
SeqsUpTo(S, n) == UNION {[1..k -> S] : k \in 0..n}

\* All the orders in which the elements of the set S can be listed.
Orderings(S) == {s \in [1..Cardinality(S) -> S] : Range(s) = S}

\* The empty dict.
EmptyDict == [k \in {} |-> <<>>]

\* None (and the empty string, which Python's truth test treats alike).
NoRoot == <<>>

-----------------------------------------------------------------------------
(* Characters.                                                             *)

UpperCase == <<"A","B","C","D","E","F","G","H","I","J","K","L","M",
               "N","O","P","Q","R","S","T","U","V","W","X","Y","Z">>

LowerCase == <<"a","b","c","d","e","f","g","h","i","j","k","l","m",
               "n","o","p","q","r","s","t","u","v","w","x","y","z">>

DigitChars == {"0","1","2","3","4","5","6","7","8","9"}

\* \w of Python's re, on the ASCII characters.
WordChars == Range(UpperCase) \cup Range(LowerCase) \cup DigitChars \cup {"_"}

\* \s of Python's re, on the characters a TLA+ string can hold.
Whitespace == {" ", "\t", "\n", "\r", "\f"}

\* The backtick character, which a TLA+ string cannot hold.
Backtick == "<backtick>"

DoubleQuote == "\""

\* The delimiter class of the dependency regex: a backtick or a double quote.
Quotes == {Backtick, DoubleQuote}

\* Case folding, for the (?i) flag.
ToLower(c) ==
    IF \E i \in 1..Len(UpperCase) : UpperCase[i] = c
    THEN LowerCase[CHOOSE i \in 1..Len(UpperCase) : UpperCase[i] = c]
    ELSE c

\* The rest of s from position i on.
Tail_From(s, i) == SubSeq(s, i, Len(s))

\* Whether t occurs in s at position i.
OccursAt(s, t, i) ==
    /\ i >= 1
    /\ i + Len(t) - 1 <= Len(s)
    /\ \A j \in 1..Len(t) : s[i + j - 1] = t[j]

-----------------------------------------------------------------------------
(* _get_dependencies, graph.py lines 12-27.                                *)

\* line 26: the alternation FROM|TABLE|INTO|JOIN|UPDATE|DELETE
Keywords ==
    { <<"F","R","O","M">>, <<"T","A","B","L","E">>, <<"I","N","T","O">>,
      <<"J","O","I","N">>, <<"U","P","D","A","T","E">>, <<"D","E","L","E","T","E">> }

\* Whether position i of text holds a word character (positions outside the
\* text do not).
IsWordAt(text, i) == i \in 1..Len(text) /\ text[i] \in WordChars

\* line 26, \b: a word boundary lies between positions i-1 and i.
WordBoundary(text, i) == IsWordAt(text, i - 1) # IsWordAt(text, i)

\* The alternation without (?i): keyword k stands at position i in upper
\* case only.
KeywordAt_CaseSensitive(text, i, k) ==
    /\ i + Len(k) - 1 <= Len(text)
    /\ \A j \in 1..Len(k) : text[i + j - 1] = k[j]

\* line 26, (?i) and the alternation: keyword k stands at position i, in any
\* letter case.
KeywordAt(text, i, k) ==
    /\ i + Len(k) - 1 <= Len(text)
    /\ \A j \in 1..Len(k) : ToLower(text[i + j - 1]) = ToLower(k[j])

\* line 26, \s+ (greedy): the first position from j on that holds no
\* white space, Len(text) + 1 when there is none.
RECURSIVE SkipWhitespace(_, _)
SkipWhitespace(text, j) ==
    IF j <= Len(text) /\ text[j] \in Whitespace
    THEN SkipWhitespace(text, j + 1)
    ELSE j

\* line 26, the lazy group and the closing class: the first position from j on that holds either
\* delimiter, with no newline before it ('.' matches no newline); 0 when
\* there is none.
RECURSIVE ClosingQuote(_, _)
ClosingQuote(text, j) ==
    IF j > Len(text) \/ text[j] = "\n" THEN 0
    ELSE IF text[j] \in Quotes THEN j
    ELSE ClosingQuote(text, j + 1)

\* line 26: the regex matched at position i: [ok, group, next], next being
\* the position after the match.
NoMatch == [ok |-> FALSE, group |-> <<>>, next |-> 0]

MatchAt(text, i) ==
    IF ~ (WordBoundary(text, i) /\ \E k \in Keywords : KeywordAt(text, i, k))
    THEN NoMatch
    ELSE LET k == CHOOSE k \in Keywords : KeywordAt(text, i, k)
             j == i + Len(k)
             w == SkipWhitespace(text, j)
         IN  IF ~ (w > j /\ w <= Len(text) /\ text[w] \in Quotes)
             THEN NoMatch
             ELSE LET c == ClosingQuote(text, w + 1)
                  IN  IF c = 0
                      THEN NoMatch
                      ELSE [ok |-> TRUE, group |-> SubSeq(text, w + 1, c - 1),
                            next |-> c + 1]

\* line 27, re.findall: the groups of the non-overlapping matches, leftmost
\* first, scanning from position i.
RECURSIVE FindAll(_, _)
FindAll(text, i) ==
    IF i > Len(text) THEN <<>>
    ELSE LET m == MatchAt(text, i)
         IN  IF m.ok THEN <<m.group>> \o FindAll(text, m.next)
             ELSE FindAll(text, i + 1)

\* A return without the set(): the matches as found.
GetDependencies_NoSet(text) == {FindAll(text, 1)}

\* line 27, list(set(re.findall(...))): the lists the call can return, the
\* order of a set's elements being arbitrary.
GetDependencies(text) == Orderings(Range(FindAll(text, 1)))

-----------------------------------------------------------------------------
(* _convert_path_to_artifact, graph.py lines 30-53.                        *)

\* The segments of a path string: the pieces between '/' characters.
RECURSIVE SplitPath(_, _)
SplitPath(p, cur) ==
    IF p = <<>> THEN <<cur>>
    ELSE IF Head(p) = "/" THEN <<cur>> \o SplitPath(Tail(p), <<>>)
    ELSE SplitPath(Tail(p), Append(cur, Head(p)))

RECURSIVE JoinPath(_)
JoinPath(segs) ==
    IF segs = <<>> THEN <<>>
    ELSE IF Len(segs) = 1 THEN segs[1]
    ELSE segs[1] \o <<"/">> \o JoinPath(Tail(segs))

\* lines 46-48, str(Path(p)): empty and '.' segments are dropped, a leading
\* '/' is kept, the empty path is '.'.
PathStr(p) ==
    LET segs == SelectSeq(SplitPath(p, <<>>), LAMBDA x : x # <<>> /\ x # <<".">>)
        body == JoinPath(segs)
    IN  IF p # <<>> /\ p[1] = "/" THEN <<"/">> \o body
        ELSE IF body = <<>> THEN <<".">>
        ELSE body

\* line 48: one character of sql_dir, read as a regular expression, matches
\* character c: '.' matches anything but a newline, others match themselves.
PatternCharMatches(pc_, c) == IF pc_ = "." THEN c # "\n" ELSE pc_ = c

\* line 48: the pattern matches text at position i.
PatternAt(text, pattern, i) ==
    /\ i + Len(pattern) - 1 <= Len(text)
    /\ \A j \in 1..Len(pattern) : PatternCharMatches(pattern[j], text[i + j - 1])

\* The end of the line that starts at position j: (.*) stops at a newline.
RECURSIVE LineEnd(_, _)
LineEnd(text, j) ==
    IF j > Len(text) \/ text[j] = "\n" THEN j - 1 ELSE LineEnd(text, j + 1)

\* lines 48-49, re.findall(...)[0]: the group of the leftmost match of the
\* pattern anywhere in text.
FirstMatch(text, pattern) ==
    IF \E i \in 1..Len(text) : PatternAt(text, pattern, i)
    THEN LET i == CHOOSE i \in 1..Len(text) :
                     /\ PatternAt(text, pattern, i)
                     /\ \A h \in 1..(i - 1) : ~ PatternAt(text, pattern, h)
         IN  [ok |-> TRUE,
              group |-> SubSeq(text, i + Len(pattern), LineEnd(text, i + Len(pattern)))]
    ELSE NoMatch

\* line 53, str.replace: every non-overlapping occurrence of old, leftmost
\* first, becomes new.
RECURSIVE Replace(_, _, _)
Replace(s, old, new) ==
    IF s = <<>> THEN <<>>
    ELSE IF OccursAt(s, old, 1)
         THEN new \o Replace(Tail_From(s, Len(old) + 1), old, new)
         ELSE <<Head(s)>> \o Replace(Tail(s), old, new)

DotTable == <<".","t","a","b","l","e">>

DotSql == <<".","s","q","l">>

\* line 53: paths[0].replace("/", ".").replace(".table", "").replace(".sql", "")
ArtifactOf(rel) ==
    Replace(Replace(Replace(rel, <<"/">>, <<".">>), DotTable, <<>>), DotSql, <<>>)

\* lines 46-53: [ok, value]; ok is FALSE when the AssertionError is raised.
ConvertPathToArtifact(dir, path) ==
    LET m == FirstMatch(PathStr(path), PathStr(dir) \o <<"/">>)
    IN  IF m.ok THEN [ok |-> TRUE, value |-> ArtifactOf(m.group)]
        ELSE [ok |-> FALSE, value |-> <<>>]

-----------------------------------------------------------------------------
(* _create_dependency_subgraph, graph.py lines 137-170.                    *)

\* line 153: lookup_artifacts = {root_artifact}
SeedLookup(root) == {root}

\* A seed that leaves the root out of the relevant artifacts.
SeedArtifacts_Empty(root) == <<>>

\* line 154: subgraph_artifacts = [root_artifact]
SeedArtifacts(root) == <<root>>

\* A frontier update without the visited-set guard.
NextLookup_NoVisitedGuard(frontier, a, graph, seen) ==
    IF a \in DOMAIN graph
    THEN (frontier \ {a}) \cup Range(graph[a])
    ELSE frontier \ {a}

\* lines 157-159: pop a from the frontier; when a is a key, add its values
\* that are not visited yet (a itself is not visited yet at this point).
NextLookup(frontier, a, graph, seen) ==
    IF a \in DOMAIN graph
    THEN (frontier \ {a}) \cup (Range(graph[a]) \ seen)
    ELSE frontier \ {a}

\* lines 158-162: the relevant artifacts gain a's values, or a itself.
NextSubgraphArtifacts(relevant, a, graph) ==
    IF a \in DOMAIN graph
    THEN relevant \o graph[a]
    ELSE Append(relevant, a)

\* A dict comprehension without the key filter: reading a defaultdict at a
\* missing key yields (and inserts) the empty list.
SubgraphDict_NoFilter(graph, relevant) ==
    [a \in Range(relevant) |-> IF a \in DOMAIN graph THEN graph[a] ELSE <<>>]

\* lines 164-169: {artifact: dependency_graph[artifact] for artifact in
\* subgraph_artifacts if artifact in dependency_graph.keys()}
SubgraphDict(graph, relevant) ==
    [a \in Range(relevant) \cap DOMAIN graph |-> graph[a]]

\* lines 153-155: the call's local state.
EnterSubgraph(root) ==
    /\ lookup_artifacts' = SeedLookup(root)
    /\ subgraph_artifacts' = SeedArtifacts(root)
    /\ visited' = {}
    /\ popped' = <<>>

\* lines 156-163: one iteration of the while loop; set.pop() removes an
\* arbitrary element.
SubgraphIterate ==
    /\ pc = "loop"
    /\ lookup_artifacts # {}
    /\ \E lookup_artifact \in lookup_artifacts :
         /\ lookup_artifacts' =
                NextLookup(lookup_artifacts, lookup_artifact, dependency_graph, visited)
         /\ subgraph_artifacts' =
                NextSubgraphArtifacts(subgraph_artifacts, lookup_artifact, dependency_graph)
         /\ visited' = visited \cup {lookup_artifact}
         /\ popped' = Append(popped, lookup_artifact)
    /\ UNCHANGED <<enumeration, run, first_graph,
                   files, sql_dir, relationship, root_artifact, enumerated, files_read,
                   path_lookup, artifacts, cursor, sql, dependencies, dependency_graph,
                   dependency_subgraph, artifact_path, artifact, error, pc, pass,
                   first_subgraph>>

\* lines 156, 164-170: the frontier is empty, the subgraph is returned.
SubgraphReturn ==
    /\ pc = "loop"
    /\ lookup_artifacts = {}
    /\ dependency_subgraph' = SubgraphDict(dependency_graph, subgraph_artifacts)
    /\ pc' = "done"
    /\ UNCHANGED <<enumeration, run, first_graph,
                   files, sql_dir, relationship, root_artifact, enumerated, files_read,
                   path_lookup, artifacts, cursor, sql, dependencies, dependency_graph,
                   lookup_artifacts, subgraph_artifacts, visited, artifact_path,
                   artifact, error, pass, first_subgraph, popped>>

\* A caller that extracts the subgraph of the subgraph it got, same root.
ExtractAgain ==
    /\ pc = "done"
    /\ pass = 1
    /\ first_subgraph' = dependency_subgraph
    /\ dependency_graph' = dependency_subgraph
    /\ pass' = 2
    /\ EnterSubgraph(root_artifact)
    /\ pc' = "loop"
    /\ UNCHANGED <<enumeration, run, first_graph,
                   files, sql_dir, relationship, root_artifact, enumerated, files_read,
                   path_lookup, artifacts, cursor, sql, dependencies,
                   dependency_subgraph, artifact_path, artifact, error>>

\* The artifacts of the graphs the subgraph extractor is run on.
NameSeq == << <<"a">>, <<"b">>, <<"c">> >>

Names == Range(NameSeq)

\* The most edges (list elements, all lists together) of those graphs.
MaxEdges == 4

\* For each artifact the length of its value list, -1 when it is no key.
ListLengths == [1..Len(NameSeq) -> -1..MaxEdges]

RECURSIVE EdgesBefore(_, _)
EdgesBefore(L, i) ==
    IF i <= 1 THEN 0
    ELSE EdgesBefore(L, i - 1) + (IF L[i - 1] > 0 THEN L[i - 1] ELSE 0)

\* The graph whose lists have the lengths L and, one after the other, the
\* elements of flat.
GraphOf(L, flat) ==
    [a \in {NameSeq[i] : i \in {j \in 1..Len(NameSeq) : L[j] >= 0}} |->
        LET i == CHOOSE j \in 1..Len(NameSeq) : NameSeq[j] = a
        IN  SubSeq(flat, EdgesBefore(L, i) + 1, EdgesBefore(L, i) + L[i])]

\* Every graph over Names with at most MaxEdges edges: any key set, any
\* value lists (repeats, self-loops and cycles included).
Graphs ==
    UNION { {GraphOf(L, flat) : flat \in [1..EdgesBefore(L, Len(NameSeq) + 1) -> Names]} :
            L \in {M \in ListLengths : EdgesBefore(M, Len(NameSeq) + 1) <= MaxEdges} }

\* The state of the parts of the module a call does not touch.
BuilderIdle ==
    /\ files = EmptyDict
    /\ relationship = "dependency"
    /\ enumerated = FALSE
    /\ enumeration = <<>>
    /\ files_read = <<>>
    /\ path_lookup = EmptyDict
    /\ artifacts = <<>>
    /\ cursor = 1
    /\ run = 1
    /\ first_graph = EmptyDict

SubgraphIdle ==
    /\ lookup_artifacts = {}
    /\ subgraph_artifacts = <<>>
    /\ visited = {}
    /\ popped = <<>>
    /\ dependency_subgraph = EmptyDict
    /\ first_subgraph = EmptyDict
    /\ pass = 1

InitSubgraph ==
    /\ dependency_graph \in Graphs
    /\ root_artifact \in Names
    /\ lookup_artifacts = SeedLookup(root_artifact)
    /\ subgraph_artifacts = SeedArtifacts(root_artifact)
    /\ visited = {}
    /\ popped = <<>>
    /\ dependency_subgraph = EmptyDict
    /\ first_subgraph = EmptyDict
    /\ pass = 1
    /\ pc = "loop"
    /\ BuilderIdle
    /\ sql_dir = <<>>
    /\ sql = <<>>
    /\ dependencies = <<>>
    /\ artifact_path = <<>>
    /\ artifact = <<>>
    /\ error = "none"

NextSubgraph == SubgraphIterate \/ SubgraphReturn \/ ExtractAgain

SpecSubgraph == InitSubgraph /\ [][NextSubgraph]_vars

\* The while loop and the return are steps of one sequential call: once
\* started it runs on.
SpecSubgraphFair ==
    SpecSubgraph /\ WF_vars(SubgraphIterate) /\ WF_vars(SubgraphReturn)

-----------------------------------------------------------------------------
(* create_dependency_graph, graph.py lines 90-134, with _get_path_lookup   *)
(* (lines 56-71) and _create_dependency_graph_helper (lines 74-87).        *)

\* Whether s ends with suffix.
EndsWith(s, suffix) ==
    Len(s) >= Len(suffix) /\ OccursAt(s, suffix, Len(s) - Len(suffix) + 1)

\* A check that forgets the missing root of the parent relationship.
ParameterError_NoRootCheck(rel, root) ==
    IF rel \notin {"parent", "dependency"} THEN "AssertionError" ELSE "none"

\* lines 112-119: the exception the parameters raise, "none" when they are
\* valid ('not root_artifact' holds for None and for the empty string).
ParameterError(rel, root) ==
    IF rel \notin {"parent", "dependency"} THEN "AssertionError"
    ELSE IF rel = "parent" /\ root = NoRoot THEN "NotImplementedError"
    ELSE "none"

\* line 67, rglob("*.sql"): the files of the snapshot whose name ends in .sql.
SqlFiles(snapshot) == {p \in DOMAIN snapshot : EndsWith(p, DotSql)}

\* The keys of a dict built by inserting ks in order: each key once, at the
\* place of its first insertion.
RECURSIVE KeyOrder(_)
KeyOrder(ks) ==
    IF ks = <<>> THEN <<>>
    ELSE LET rest == KeyOrder(SubSeq(ks, 1, Len(ks) - 1))
             last == ks[Len(ks)]
         IN  IF last \in Range(rest) THEN rest ELSE Append(rest, last)

\* The comprehension keeping, for an artifact, the first path that resolves
\* to it.
PathLookup_FirstWins(dir, sql_paths) ==
    LET key(i) == ConvertPathToArtifact(dir, sql_paths[i]).value
    IN  [a \in {key(i) : i \in 1..Len(sql_paths)} |->
            sql_paths[CHOOSE i \in 1..Len(sql_paths) :
                         /\ key(i) = a
                         /\ \A j \in 1..(i - 1) : key(j) # a]]

\* lines 68-70, the dict comprehension over sql_paths: each artifact maps to
\* the last path that resolves to it.
PathLookup(dir, sql_paths) ==
    LET key(i) == ConvertPathToArtifact(dir, sql_paths[i]).value
    IN  [a \in {key(i) : i \in 1..Len(sql_paths)} |->
            sql_paths[CHOOSE i \in 1..Len(sql_paths) :
                         /\ key(i) = a
                         /\ \A j \in (i + 1)..Len(sql_paths) : key(j) # a]]

\* line 122: list(path_lookup.keys()).
ArtifactList(dir, sql_paths) ==
    KeyOrder([i \in 1..Len(sql_paths) |-> ConvertPathToArtifact(dir, sql_paths[i]).value])

\* line 82, repeated over the dependencies: the artifact is appended to the
\* list of each dependency (a defaultdict: a missing key starts empty).
RECURSIVE AppendToEach(_, _, _)
AppendToEach(graph, deps, a) ==
    IF deps = <<>> THEN graph
    ELSE LET d == Head(deps)
             old == IF d \in DOMAIN graph THEN graph[d] ELSE <<>>
             new == [k \in DOMAIN graph \cup {d} |->
                        IF k = d THEN Append(old, a) ELSE graph[k]]
         IN  AppendToEach(new, Tail(deps), a)

\* A parent branch with the two names swapped.
Helper_ParentSwapped(a, deps, graph, rel) ==
    IF rel = "parent"
    THEN [k \in DOMAIN graph \cup {a} |->
             IF k = a THEN (IF a \in DOMAIN graph THEN graph[a] ELSE <<>>) \o deps
             ELSE graph[k]]
    ELSE [k \in DOMAIN graph \cup {a} |-> IF k = a THEN deps ELSE graph[k]]

\* lines 80-84 and 87: the graph after one artifact, for the two valid
\* relationships.
Helper(a, deps, graph, rel) ==
    IF rel = "parent"
    THEN AppendToEach(graph, deps, a)
    ELSE [k \in DOMAIN graph \cup {a} |-> IF k = a THEN deps ELSE graph[k]]

\* lines 112-119: the parameters are checked first.
CheckParameters ==
    /\ pc = "start"
    /\ IF ParameterError(relationship, root_artifact) # "none"
       THEN /\ error' = ParameterError(relationship, root_artifact)
            /\ pc' = "failed"
       ELSE /\ pc' = "discover"
            /\ UNCHANGED error
    /\ UNCHANGED <<enumeration, run, first_graph,
                   files, sql_dir, relationship, root_artifact, enumerated, files_read,
                   path_lookup, artifacts, cursor, sql, dependencies, dependency_graph,
                   lookup_artifacts, subgraph_artifacts, visited, dependency_subgraph,
                   artifact_path, artifact, pass, first_subgraph, popped>>

\* lines 120-122: the directory is enumerated, in an order the file system
\* chooses, and every file found is resolved to its artifact.
GetPathLookup ==
    /\ pc = "discover"
    /\ enumerated' = TRUE
    /\ \E found \in Orderings(SqlFiles(files)) :
         /\ enumeration' = found
         /\ IF \E i \in 1..Len(found) : ~ ConvertPathToArtifact(sql_dir, found[i]).ok
            THEN /\ error' = "AssertionError"
                 /\ pc' = "failed"
                 /\ UNCHANGED <<path_lookup, artifacts, cursor, dependency_graph>>
            ELSE /\ path_lookup' = PathLookup(sql_dir, found)
                 /\ artifacts' = ArtifactList(sql_dir, found)
                 /\ dependency_graph' = EmptyDict
                 /\ cursor' = 1
                 /\ pc' = "build"
                 /\ UNCHANGED error
    /\ UNCHANGED <<run, first_graph,
                   files, sql_dir, relationship, root_artifact, files_read, sql,
                   dependencies, lookup_artifacts, subgraph_artifacts, visited,
                   dependency_subgraph, artifact_path, artifact, pass, first_subgraph,
                   popped>>

\* lines 123-129: one iteration of the for loop: the artifact's file is
\* read, its dependencies extracted, the graph updated; the helper raises
\* for a relationship that is neither of the two (line 86).
BuildStep ==
    /\ pc = "build"
    /\ cursor <= Len(artifacts)
    /\ LET a == artifacts[cursor]
       IN  /\ files_read' = Append(files_read, path_lookup[a])
           /\ sql' = files[path_lookup[a]]
           /\ \E deps \in GetDependencies(files[path_lookup[a]]) :
                /\ dependencies' = deps
                /\ IF relationship \in {"parent", "dependency"}
                   THEN /\ dependency_graph' = Helper(a, deps, dependency_graph, relationship)
                        /\ cursor' = cursor + 1
                        /\ UNCHANGED <<error, pc>>
                   ELSE /\ error' = "NotImplementedError"
                        /\ pc' = "failed"
                        /\ UNCHANGED <<dependency_graph, cursor>>
    /\ UNCHANGED <<enumeration, run, first_graph,
                   files, sql_dir, relationship, root_artifact, enumerated, path_lookup,
                   artifacts, lookup_artifacts, subgraph_artifacts, visited,
                   dependency_subgraph, artifact_path, artifact, pass, first_subgraph,
                   popped>>

\* lines 130-133 and 153-155: with a root artifact the subgraph extractor is
\* called on the graph.
CallSubgraph ==
    /\ pc = "build"
    /\ cursor > Len(artifacts)
    /\ root_artifact # NoRoot
    /\ EnterSubgraph(root_artifact)
    /\ pc' = "loop"
    /\ UNCHANGED <<enumeration, run, first_graph,
                   files, sql_dir, relationship, root_artifact, enumerated, files_read,
                   path_lookup, artifacts, cursor, sql, dependencies, dependency_graph,
                   dependency_subgraph, artifact_path, artifact, error, pass,
                   first_subgraph>>

\* lines 130 and 134: without a root artifact the whole graph is returned.
ReturnGraph ==
    /\ pc = "build"
    /\ cursor > Len(artifacts)
    /\ root_artifact = NoRoot
    /\ pc' = "done"
    /\ UNCHANGED <<enumeration, run, first_graph,
                   files, sql_dir, relationship, root_artifact, enumerated, files_read,
                   path_lookup, artifacts, cursor, sql, dependencies, dependency_graph,
                   lookup_artifacts, subgraph_artifacts, visited, dependency_subgraph,
                   artifact_path, artifact, error, pass, first_subgraph, popped>>

\* lines 133-134: the mapping create_dependency_graph returns.
Returned == IF root_artifact # NoRoot THEN dependency_subgraph ELSE dependency_graph

\* The scan directory of the builder runs.
ScanDir == <<"d">>

ArtifactA == <<"a">>

ArtifactB == <<"b">>

\* The files a snapshot can hold: three .sql files with distinct artifacts,
\* a .table.sql file that resolves to the same artifact as b.sql, and a
\* file that is no .sql file.
FilePaths ==
    { <<"d","/","a",".","s","q","l">>,
      <<"d","/","b",".","s","q","l">>,
      <<"d","/","b",".","t","a","b","l","e",".","s","q","l">>,
      <<"d","/","c",".","s","q","l">>,
      <<"d","/","n",".","t","x","t">> }

\* The texts a file can hold: no reference; a reference to a; to b twice
\* (two keywords, two letter cases, the two delimiters); to c and to an
\* artifact that has no file.
FileTexts ==
    { <<>>,
      <<"F","R","O","M"," ", Backtick, "a", Backtick>>,
      <<"F","R","O","M"," ", Backtick, "b", Backtick, "\n",
        "j","o","i","n"," ", DoubleQuote, "b", DoubleQuote>>,
      <<"F","R","O","M"," ", Backtick, "c", Backtick, " ",
        "I","N","T","O"," ", Backtick, "x", Backtick>> }

\* The most files in a snapshot.
MaxFiles == 3

Snapshots ==
    UNION {[ps -> FileTexts] : ps \in {q \in SUBSET FilePaths : Cardinality(q) <= MaxFiles}}

Init ==
    /\ files \in Snapshots
    /\ sql_dir = ScanDir
    /\ relationship \in {"dependency", "parent", "child"}
    /\ root_artifact \in {NoRoot, ArtifactA, ArtifactB}
    /\ enumerated = FALSE
    /\ enumeration = <<>>
    /\ files_read = <<>>
    /\ path_lookup = EmptyDict
    /\ artifacts = <<>>
    /\ cursor = 1
    /\ run = 1
    /\ first_graph = EmptyDict
    /\ sql = <<>>
    /\ dependencies = <<>>
    /\ dependency_graph = EmptyDict
    /\ SubgraphIdle
    /\ artifact_path = <<>>
    /\ artifact = <<>>
    /\ error = "none"
    /\ pc = "start"

Next ==
    \/ CheckParameters
    \/ GetPathLookup
    \/ BuildStep
    \/ CallSubgraph
    \/ ReturnGraph
    \/ SubgraphIterate
    \/ SubgraphReturn

Spec == Init /\ [][Next]_vars

\* A caller that runs create_dependency_graph a second time on the same
\* directory with the same relationship and root artifact; the file system
\* is free to enumerate the files in another order.
BuildAgain ==
    /\ pc = "done"
    /\ run = 1
    /\ first_graph' = Returned
    /\ run' = 2
    /\ enumerated' = FALSE
    /\ enumeration' = <<>>
    /\ files_read' = <<>>
    /\ path_lookup' = EmptyDict
    /\ artifacts' = <<>>
    /\ cursor' = 1
    /\ sql' = <<>>
    /\ dependencies' = <<>>
    /\ dependency_graph' = EmptyDict
    /\ lookup_artifacts' = {}
    /\ subgraph_artifacts' = <<>>
    /\ visited' = {}
    /\ popped' = <<>>
    /\ dependency_subgraph' = EmptyDict
    /\ pc' = "start"
    /\ UNCHANGED <<files, sql_dir, relationship, root_artifact, artifact_path, artifact,
                   error, pass, first_subgraph>>

NextTwice == Next \/ BuildAgain

SpecTwice == Init /\ [][NextTwice]_vars

-----------------------------------------------------------------------------
(* _get_dependencies run on its own, over a family of SQL texts.           *)

Space == <<" ">>

\* Keyword spellings of the texts: two keywords, one in lower case, and a
\* word that is no keyword.
KeywordForms == { <<"F","R","O","M">>, <<"j","o","i","n">>, <<"o","n">> }

\* What separates the keyword from the identifier.
Gaps == { Space, <<>> }

\* Delimited identifiers: both delimiters alike, the two mixed either way,
\* and one never closed.
QuotedForms ==
    { <<Backtick, "a", Backtick>>, <<DoubleQuote, "a", DoubleQuote>>,
      <<DoubleQuote, "a", Backtick>>, <<Backtick, "b", DoubleQuote>>,
      <<Backtick, "a">> }

\* The pieces a text is made of: keyword, gap, identifier; a keyword glued to
\* a preceding word character; a newline as the gap; a newline inside the
\* delimiters; a delimiter opened and left open before a space; a lone
\* space.
Clauses ==
    { k \o g \o q : k \in KeywordForms, g \in Gaps, q \in QuotedForms }
    \cup { <<"x","F","R","O","M"," ", Backtick, "a", Backtick>>,
           <<"F","R","O","M","\n", Backtick, "b", Backtick>>,
           <<"I","n","t","o"," ", DoubleQuote, "a", "\n", "b", DoubleQuote>>,
           <<"F","R","O","M"," ", DoubleQuote, "c", " ">>,
           Space }

\* The most pieces in one text.
MaxClauses == 2

RECURSIVE Flatten(_)
Flatten(ss) == IF ss = <<>> THEN <<>> ELSE Head(ss) \o Flatten(Tail(ss))

Texts == {Flatten(cs) : cs \in SeqsUpTo(Clauses, MaxClauses)}

InitDeps ==
    /\ sql \in Texts
    /\ dependencies = <<>>
    /\ pc = "deps"
    /\ error = "none"
    /\ BuilderIdle
    /\ SubgraphIdle
    /\ dependency_graph = EmptyDict
    /\ root_artifact = NoRoot
    /\ sql_dir = <<>>
    /\ artifact_path = <<>>
    /\ artifact = <<>>

\* lines 26-27: the call returns one of the lists it can return.
GetDependenciesCall ==
    /\ pc = "deps"
    /\ \E found \in GetDependencies(sql) : dependencies' = found
    /\ pc' = "done"
    /\ UNCHANGED <<enumeration, run, first_graph,
                   files, sql_dir, relationship, root_artifact, enumerated, files_read,
                   path_lookup, artifacts, cursor, sql, dependency_graph,
                   lookup_artifacts, subgraph_artifacts, visited, dependency_subgraph,
                   artifact_path, artifact, error, pass, first_subgraph, popped>>

NextDeps == GetDependenciesCall

SpecDeps == InitDeps /\ [][NextDeps]_vars

-----------------------------------------------------------------------------
(* _convert_path_to_artifact run on its own, over a family of paths.       *)

\* The scan directories: a plain name, the same with a trailing separator,
\* and a name with a dot in it.
Dirs == { <<"d">>, <<"d","/">>, <<"t",".","d">> }

\* The directory names the file paths are made of.
DirSegments ==
    { <<"d">>, <<"x","d">>, <<"t","x","d">>, <<"t",".","d">>,
      <<"t","a","b","l","e","s">> }

\* The file names the file paths end in.
FileNames ==
    { <<"a",".","s","q","l">>, <<"a",".","t","a","b","l","e",".","s","q","l">> }

\* The most directories in one file path.
MaxDepth == 4

Paths ==
    {JoinPath(Append(ds, f)) : ds \in SeqsUpTo(DirSegments, MaxDepth), f \in FileNames}

InitPath ==
    /\ sql_dir \in Dirs
    /\ artifact_path \in Paths
    /\ artifact = <<>>
    /\ error = "none"
    /\ pc = "convert"
    /\ BuilderIdle
    /\ SubgraphIdle
    /\ dependency_graph = EmptyDict
    /\ root_artifact = NoRoot
    /\ sql = <<>>
    /\ dependencies = <<>>

\* lines 46-53: the call returns the artifact or raises the AssertionError.
ConvertPathCall ==
    /\ pc = "convert"
    /\ LET r == ConvertPathToArtifact(sql_dir, artifact_path)
       IN  IF r.ok
           THEN artifact' = r.value /\ pc' = "done" /\ UNCHANGED error
           ELSE error' = "AssertionError" /\ pc' = "failed" /\ UNCHANGED artifact
    /\ UNCHANGED <<enumeration, run, first_graph,
                   files, sql_dir, relationship, root_artifact, enumerated, files_read,
                   path_lookup, artifacts, cursor, sql, dependencies, dependency_graph,
                   lookup_artifacts, subgraph_artifacts, visited, dependency_subgraph,
                   artifact_path, pass, first_subgraph, popped>>

NextPath == ConvertPathCall

SpecPath == InitPath /\ [][NextPath]_vars

-----------------------------------------------------------------------------
(* Claims about the subgraph extractor, checked under SpecSubgraph.        *)

\* One step along the edges of graph from the artifacts of S.
Successors(graph, S) == UNION {Range(graph[k]) : k \in S \cap DOMAIN graph}

\* The artifacts reachable from root along the edges of graph, root included.
RECURSIVE Closure(_, _)
Closure(graph, S) ==
    LET T == S \cup Successors(graph, S)
    IN  IF T = S THEN S ELSE Closure(graph, T)

Reachable(graph, root) == Closure(graph, {root})

\* Every key and every value of a dict of lists.
KeysAndValues(graph) == DOMAIN graph \cup Successors(graph, DOMAIN graph)

\* C1: the subgraph returned for graph G and root R has as keys exactly the
\* keys of G reachable from R (R included), each with the value list it has
\* in G; a reached artifact that is no key of G is no key of the result, and
\* the result is empty when R is no key of G.
C1_SubgraphIsReachableKeys ==
    pc = "done" =>
        /\ DOMAIN dependency_subgraph =
               Reachable(dependency_graph, root_artifact) \cap DOMAIN dependency_graph
        /\ \A k \in DOMAIN dependency_subgraph :
               dependency_subgraph[k] = dependency_graph[k]
        /\ (root_artifact \notin DOMAIN dependency_graph => dependency_subgraph = EmptyDict)

\* C1's case: a first call returned a subgraph that keeps some keys of G,
\* drops others, and reached an artifact that is no key of G.
C1_Witness ==
    /\ pc = "done"
    /\ pass = 1
    /\ DOMAIN dependency_subgraph # {}
    /\ DOMAIN dependency_subgraph # DOMAIN dependency_graph
    /\ \E a \in visited : a \notin DOMAIN dependency_graph

\* The progress measure of the while loop: two for every artifact not yet
\* visited, one for every visited artifact still in the frontier.
LoopMeasure ==
    2 * Cardinality((Names \cup {root_artifact}) \ visited)
        + Cardinality(lookup_artifacts \cap visited)

\* C2: on every finite graph, cyclic or with self-loops, the frontier loop
\* terminates: every iteration strictly lowers the progress measure, and a
\* running call eventually has an empty frontier and has returned.
C2_SubgraphTerminates ==
    /\ [][(pc = "loop" /\ pc' = "loop" /\ pass' = pass) => LoopMeasure' < LoopMeasure]_vars
    /\ (pc = "loop") ~> (pc = "done" /\ lookup_artifacts = {})

\* C2's case: a call on a graph with a self-loop at the root and a cycle
\* through another artifact has returned.
C2_Witness ==
    /\ pc = "done"
    /\ pass = 1
    /\ lookup_artifacts = {}
    /\ root_artifact \in DOMAIN dependency_graph
    /\ root_artifact \in Range(dependency_graph[root_artifact])
    /\ \E b \in DOMAIN dependency_graph \ {root_artifact} :
          /\ b \in Range(dependency_graph[root_artifact])
          /\ root_artifact \in Range(dependency_graph[b])

\* C5: the artifacts reachable from R in G are exactly the keys and the
\* values of the returned subgraph together with R.
C5_ClosureIsKeysAndValues ==
    pc = "done" =>
        Reachable(dependency_graph, root_artifact) =
            KeysAndValues(dependency_subgraph) \cup {root_artifact}

\* C5's case: a returned subgraph whose closure has three artifacts, one of
\* them only a value.
C5_Witness ==
    /\ pc = "done"
    /\ pass = 1
    /\ Cardinality(Reachable(dependency_graph, root_artifact)) = 3
    /\ Cardinality(DOMAIN dependency_subgraph) = 2

\* C6: extracting, with the same root, the subgraph of an extracted subgraph
\* gives the same keys with the same value lists.
C6_SubgraphIdempotent ==
    (pc = "done" /\ pass = 2) => dependency_subgraph = first_subgraph

\* C6's case: the second extraction has returned, from a first result that
\* is not empty and is smaller than the original graph.
C6_Witness ==
    /\ pc = "done"
    /\ pass = 2
    /\ Cardinality(DOMAIN first_subgraph) = 2
    /\ \E k \in DOMAIN first_subgraph : Len(first_subgraph[k]) = 2

\* C13: in every run of the subgraph extractor, cyclic graphs and
\* self-loops included, an artifact that has been popped from the frontier
\* is never in the frontier again, no artifact is popped twice, and the
\* number of loop iterations is at most the number of artifacts reachable
\* from the root.
C13_EachArtifactPoppedOnce ==
    /\ Range(popped) \cap lookup_artifacts = {}
    /\ NoDuplicates(popped)
    /\ Len(popped) <= Cardinality(Reachable(dependency_graph, root_artifact))

-----------------------------------------------------------------------------
(* Claims about the graph builder, checked under Spec.                     *)

\* The artifacts the discovered .sql files resolve to.
Discovered == {ConvertPathToArtifact(sql_dir, p).value : p \in SqlFiles(files)}

\* The artifacts referenced in the file the lookup holds for artifact a.
ReferencedBy(a) == Range(FindAll(files[path_lookup[a]], 1))

\* The discovered artifacts whose file references d.
Dependents(d) == {a \in DOMAIN path_lookup : d \in ReferencedBy(a)}

\* Root together with everything that depends on it, directly or through
\* other artifacts.
RECURSIVE DependentsClosure(_)
DependentsClosure(S) ==
    LET T == S \cup UNION {Dependents(d) : d \in S}
    IN  IF T = S THEN S ELSE DependentsClosure(T)

\* C3: with relationship "dependency" and no root artifact the returned
\* mapping has as keys exactly the artifacts of the discovered .sql files (an
\* artifact that is only referenced is no key), and each key's list holds
\* exactly the artifacts its file references, each once, the empty list when
\* the file references nothing.
C3_DependencyGraphOfDiscovered ==
    (pc = "done" /\ relationship = "dependency" /\ root_artifact = NoRoot) =>
        /\ DOMAIN Returned = Discovered
        /\ \A a \in DOMAIN Returned :
              /\ Range(Returned[a]) = ReferencedBy(a)
              /\ NoDuplicates(Returned[a])

\* C3's case: a returned full graph with a key that has no references, a
\* key whose file names one artifact twice, and a reference to an artifact
\* that has no file.
C3_Witness ==
    /\ pc = "done"
    /\ relationship = "dependency"
    /\ root_artifact = NoRoot
    /\ \E a \in DOMAIN Returned : Returned[a] = <<>>
    /\ \E a \in DOMAIN Returned :
          Len(FindAll(files[path_lookup[a]], 1)) > Len(Returned[a])
    /\ \E a \in DOMAIN Returned : \E d \in Range(Returned[a]) : d \notin DOMAIN Returned

\* C4: with relationship "parent" and root R the returned mapping has as
\* keys exactly R and the artifacts that depend on R through any number of
\* steps, those of them that some discovered file references, and each
\* key's list holds exactly the discovered artifacts whose file references
\* the key, each once.
C4_ParentSubgraphOfRoot ==
    (pc = "done" /\ relationship = "parent" /\ root_artifact # NoRoot) =>
        /\ DOMAIN Returned =
               {k \in DependentsClosure({root_artifact}) : Dependents(k) # {}}
        /\ \A k \in DOMAIN Returned :
              /\ Range(Returned[k]) = Dependents(k)
              /\ NoDuplicates(Returned[k])

\* C4's case: a returned parent subgraph two levels deep: the root has a
\* dependent that has a dependent of its own, and a file names an artifact
\* twice.
C4_Witness ==
    /\ pc = "done"
    /\ relationship = "parent"
    /\ root_artifact # NoRoot
    /\ Cardinality(DOMAIN Returned) = 2
    /\ \E k \in DOMAIN Returned \ {root_artifact} : k \in Range(Returned[root_artifact])
    /\ \E a \in DOMAIN path_lookup :
          Len(FindAll(files[path_lookup[a]], 1)) > Cardinality(ReferencedBy(a))

\* The parameters create_dependency_graph rejects.
InvalidParameters ==
    \/ relationship \notin {"dependency", "parent"}
    \/ relationship = "parent" /\ root_artifact = NoRoot

\* C7: with a relationship outside the two, or with "parent" and no root
\* artifact, the call fails with an error, and the directory has not been
\* enumerated and no file has been read when it fails (nor at any time).
C7_InvalidParametersFailBeforeIO ==
    InvalidParameters =>
        /\ enumerated = FALSE
        /\ files_read = <<>>
        /\ pc \in {"start", "failed"}
        /\ (pc = "failed" => error \in {"AssertionError", "NotImplementedError"})
        /\ (pc = "start" => error = "none")

\* C7's case: the call has failed on "parent" without a root artifact, the
\* directory holding .sql files.
C7_Witness ==
    /\ pc = "failed"
    /\ relationship = "parent"
    /\ root_artifact = NoRoot
    /\ error = "NotImplementedError"
    /\ Cardinality(SqlFiles(files)) >= 2

\* The two lists hold the same elements the same number of times.
SameElements(s, t) ==
    /\ Len(s) = Len(t)
    /\ \A x \in Range(s) \cup Range(t) :
         Cardinality({i \in 1..Len(s) : s[i] = x})
            = Cardinality({i \in 1..Len(t) : t[i] = x})

\* The two mappings have the same keys and, for every key, the same values
\* when the order within a value list is ignored.
SameContent(g, h) ==
    /\ DOMAIN g = DOMAIN h
    /\ \A k \in DOMAIN g : SameElements(g[k], h[k])

\* C12, checked under SpecTwice:
\* two runs of create_dependency_graph on the same files with the same
\* relationship and root artifact, whatever the two enumeration orders of
\* the files, return mappings with the same key set and, for every key, the
\* same values when order within a value list is ignored.
C12_EnumerationOrderIrrelevant ==
    (pc = "done" /\ run = 2) => SameContent(Returned, first_graph)

\* The artifact a discovered file resolves to, and the artifacts its text
\* references.
ResolvedArtifact(p) == ConvertPathToArtifact(sql_dir, p).value

ReferencesOf(p) == Range(FindAll(files[p], 1))

\* Two distinct files of the directory that resolve to one artifact.
Collide(p, q) == p # q /\ ResolvedArtifact(p) = ResolvedArtifact(q)

\* The file discovered j-th is discovered after every file it collides
\* with.
LastOfItsArtifact(j) ==
    \A k \in (j + 1)..Len(enumeration) : ~ Collide(enumeration[j], enumeration[k])

\* The edge from artifact a to its reference r is in graph g, in the
\* orientation of the run.
HasEdge(g, a, r) ==
    IF relationship = "dependency"
    THEN a \in DOMAIN g /\ r \in Range(g[a])
    ELSE r \in DOMAIN g /\ a \in Range(g[r])

\* C14: when two .sql files of the directory resolve to one artifact, a
\* call with valid parameters does not fail, and when it returns the
\* artifact is mapped to the later-discovered file only, the earlier file
\* has never been read and the later one has been read once, every
\* reference of the later file is an edge of the graph built, and no
\* reference that only the earlier file makes is an edge of the graph built
\* or of the mapping returned, in either orientation.
C14_LaterFileWins ==
    /\ (pc = "failed" /\ ~ InvalidParameters) =>
          ~ \E p, q \in SqlFiles(files) : Collide(p, q)
    /\ pc = "done" =>
          \A i, j \in 1..Len(enumeration) :
             (i < j /\ Collide(enumeration[i], enumeration[j]) /\ LastOfItsArtifact(j)) =>
                LET p == enumeration[i]
                    q == enumeration[j]
                    a == ResolvedArtifact(q)
                IN  /\ error = "none"
                    /\ path_lookup[a] = q
                    /\ \A b \in DOMAIN path_lookup : path_lookup[b] # p
                    /\ p \notin Range(files_read)
                    /\ Cardinality({k \in 1..Len(files_read) : files_read[k] = q}) = 1
                    /\ \A r \in ReferencesOf(q) : HasEdge(dependency_graph, a, r)
                    /\ \A r \in ReferencesOf(p) \ ReferencesOf(q) :
                          /\ ~ HasEdge(dependency_graph, a, r)
                          /\ ~ HasEdge(Returned, a, r)

\* C14's case: a call has returned a non-empty mapping for a directory in
\* which two files resolve to one artifact, the earlier one making a
\* reference the later one does not make, the later one making references
\* of its own.
C14_Witness ==
    /\ pc = "done"
    /\ Returned # EmptyDict
    /\ \E i, j \in 1..Len(enumeration) :
         /\ i < j
         /\ Collide(enumeration[i], enumeration[j])
         /\ ReferencesOf(enumeration[i]) \ ReferencesOf(enumeration[j]) # {}
         /\ ReferencesOf(enumeration[j]) \ ReferencesOf(enumeration[i]) # {}
         /\ \E r \in ReferencesOf(enumeration[j]) :
               HasEdge(Returned, ResolvedArtifact(enumeration[j]), r)

-----------------------------------------------------------------------------
(* Claims about the dependency extractor, checked under SpecDeps.          *)

\* In text, e stands right after a keyword and white space, between an
\* opening delimiter and a closing delimiter of the same kind.
QuotedAfterKeyword(text, e) ==
    \E i \in 1..Len(text) : \E k \in Keywords :
       /\ KeywordAt(text, i, k)
       /\ \E w \in (i + Len(k) + 1)..Len(text) :
            /\ \A m \in (i + Len(k))..(w - 1) : text[m] \in Whitespace
            /\ text[w] \in Quotes
            /\ OccursAt(text, e, w + 1)
            /\ w + Len(e) + 1 <= Len(text)
            /\ text[w + Len(e) + 1] = text[w]

\* C8: the list _get_dependencies returns has no duplicates, and each of its
\* elements stands in the text right after a keyword and white space between
\* two delimiters of the same kind; text opened by one kind of delimiter and
\* closed by the other is never returned.
C8_DependenciesQuotedAlike ==
    pc = "done" =>
        /\ NoDuplicates(dependencies)
        /\ \A e \in Range(dependencies) : QuotedAfterKeyword(sql, e)

\* A keyword in any letter case starts at position i of text as a whole
\* word, white space runs from its end to position w - 1, and position w
\* holds a delimiter.
KeywordThenDelimiter(text, i, w) ==
    /\ i \in 1..Len(text)
    /\ w \in 1..Len(text)
    /\ text[w] \in Quotes
    /\ i = 1 \/ text[i - 1] \notin WordChars
    /\ \E k \in Keywords :
         /\ i + Len(k) < w
         /\ \A j \in 1..Len(k) : ToLower(text[i + j - 1]) = ToLower(k[j])
         /\ \A m \in (i + Len(k))..(w - 1) : text[m] \in Whitespace

\* No delimiter and no newline stands strictly between positions w and c.
PlainBetween(text, w, c) ==
    \A m \in (w + 1)..(c - 1) : text[m] \notin Quotes \cup {"\n"}

\* A reference: a keyword at i, white space, and an identifier, holding no
\* delimiter and no newline, between the delimiter at w and the delimiter of
\* the same kind at c.
ReferenceAt(text, i, w, c) ==
    /\ KeywordThenDelimiter(text, i, w)
    /\ c \in (w + 1)..Len(text)
    /\ text[c] = text[w]
    /\ PlainBetween(text, w, c)

\* Position i lies inside an earlier stretch of the text that runs from a
\* keyword over white space and a delimiter to the first following
\* delimiter, of either kind, on the same line.
InsideEarlierStretch(text, i) ==
    \E j \in 1..(i - 1) : \E w \in j..Len(text) :
       /\ KeywordThenDelimiter(text, j, w)
       /\ \E c \in i..Len(text) :
            /\ c > w
            /\ text[c] \in Quotes
            /\ PlainBetween(text, w, c)

\* C11, as the specification states it: every identifier that stands in the
\* text after a keyword (any letter case, whole word) and white space,
\* enclosed in a pair of delimiters of one kind, is in the list
\* _get_dependencies returns; several references are all returned.
C11_AllReferencesReturned ==
    pc = "done" =>
        \A i, w \in 1..Len(sql) :
           KeywordThenDelimiter(sql, i, w) =>
              \A c \in (w + 1)..Len(sql) :
                 ReferenceAt(sql, i, w, c)
                    => SubSeq(sql, w + 1, c - 1) \in Range(dependencies)

\* C11, amended: every such identifier is in the returned list when its
\* reference does not begin inside an earlier stretch running from a keyword,
\* white space and a delimiter to the first following delimiter of either
\* kind on the same line; all references clear of such stretches are
\* returned.
C11_ClearReferencesReturned ==
    pc = "done" =>
        \A i, w \in 1..Len(sql) :
           KeywordThenDelimiter(sql, i, w) =>
              \A c \in (w + 1)..Len(sql) :
                 (ReferenceAt(sql, i, w, c) /\ ~ InsideEarlierStretch(sql, i))
                    => SubSeq(sql, w + 1, c - 1) \in Range(dependencies)

\* Two references in one text, one spelled in lower case, both clear of
\* earlier stretches, both returned.
C11_Witness ==
    /\ pc = "done"
    /\ dependencies # <<>>
    /\ \E i1, w1, c1 \in 1..Len(sql) :
         /\ ReferenceAt(sql, i1, w1, c1)
         /\ \E i2, w2, c2 \in (c1 + 1)..Len(sql) :
              /\ sql[i2] = "j"
              /\ sql[w1] # sql[w2]
              /\ ReferenceAt(sql, i2, w2, c2)
              /\ ~ InsideEarlierStretch(sql, i2)
              /\ SubSeq(sql, w2 + 1, c2 - 1) \in Range(dependencies)

-----------------------------------------------------------------------------
(* Claims about the identifier resolver, checked under SpecPath.           *)

\* The path string has the directory string, then a separator, as its
\* leading part.
IsUnder(dir, path) ==
    /\ OccursAt(PathStr(path), PathStr(dir) \o <<"/">>, 1)
    /\ Len(PathStr(path)) > Len(PathStr(dir)) + 1

\* The part of the path strictly after the directory prefix.
RelativePart(dir, path) == Tail_From(PathStr(path), Len(PathStr(dir)) + 2)

Dotted(s) == [i \in 1..Len(s) |-> IF s[i] = "/" THEN "." ELSE s[i]]

StripSuffix(s, suffix) ==
    IF Len(s) >= Len(suffix) /\ OccursAt(s, suffix, Len(s) - Len(suffix) + 1)
    THEN SubSeq(s, 1, Len(s) - Len(suffix))
    ELSE s

\* Separators to dots, the trailing .sql off, then a trailing .table off.
TrailingStripped(rel) == StripSuffix(StripSuffix(Dotted(rel), DotSql), DotTable)

\* C9: for a path under the scan directory the resolver returns the part
\* after the prefix with separators as dots, the trailing .sql removed and
\* .table removed only where it is the trailing marker; .table or .sql
\* elsewhere in the relative path stays.
C9_OnlyTrailingMarkersStripped ==
    (pc \in {"done", "failed"} /\ IsUnder(sql_dir, artifact_path)) =>
        /\ error = "none"
        /\ artifact = TrailingStripped(RelativePart(sql_dir, artifact_path))

\* C10: for a path that is not under the scan directory the resolver raises
\* and returns no artifact, also when the directory's text occurs in the
\* path somewhere else than as its leading part.
C10_OutsidePathRaises ==
    (pc \in {"done", "failed"} /\ ~ IsUnder(sql_dir, artifact_path)) =>
        /\ error = "AssertionError"
        /\ pc = "failed"

=============================================================================
